---- MODULE Spec2Model ----
(***************************************************************************)
(* Model of confluo's expression compiler                                  *)
(* (libconfluo/confluo/parser/expression_compiler.h).                      *)
(*                                                                         *)
(* A std::string is a sequence of character codes (ASCII), compared        *)
(* lexicographically as std::string::operator< does.  A std::set<T> whose  *)
(* order is T::operator< is a sequence of T, strictly ascending in that    *)
(* order: iteration is left to right, insert keeps the order and drops an  *)
(* element equivalent to one already present.                              *)
(***************************************************************************)
EXTENDS Naturals, Sequences, FiniteSets

(***************************************************************************)
(* std::string                                                             *)
(***************************************************************************)

\* std::string::operator< : lexicographic order on character codes, a proper
\* prefix is smaller.
RECURSIVE StrLessFrom(_, _, _)
StrLessFrom(s, t, i) ==
  IF i > Len(t) THEN FALSE
  ELSE IF i > Len(s) THEN TRUE
  ELSE IF s[i] < t[i] THEN TRUE
  ELSE IF t[i] < s[i] THEN FALSE
  ELSE StrLessFrom(s, t, i + 1)

StrLess(s, t) == StrLessFrom(s, t, 1)

\* Character codes of the text the source and its collaborators produce.
\* ' '=32 '!'=33 '0'..'9'=48..57 '<'=60 '='=61 '>'=62
\* 'a'=97 'b'=98 'c'=99 'd'=100 'n'=110 'o'=111 'r'=114 'x'=120 'y'=121
STR_AND == <<32, 97, 110, 100, 32>>       \* " and "
STR_OR == <<32, 111, 114, 32>>            \* " or "

IsDigit(c) == c >= 48 /\ c <= 57

(***************************************************************************)
(* Collaborators of the compiler: schema, typed values, relational ops.    *)
(***************************************************************************)

\* reational_op_id, and_or: the operator codes a range node can carry.
RelOps == {"EQ", "NEQ", "LT", "GT", "LE", "GE"}

\* relop_utils::op_to_str
op_to_str(op) ==
  CASE op = "EQ" -> <<61, 61>>
    [] op = "NEQ" -> <<33, 61>>
    [] op = "LT" -> <<60>>
    [] op = "GT" -> <<62>>
    [] op = "LE" -> <<60, 61>>
    [] op = "GE" -> <<62, 61>>

\* schema_t: the columns of the schema {a: int, b: string}, by name.
FieldA == <<97>>
FieldB == <<98>>
FieldC == <<99>>
Schema ==
  [n \in {FieldA, FieldB} |->
     IF n = FieldA THEN [name |-> FieldA, idx |-> 0, type |-> "INT"]
                   ELSE [name |-> FieldB, idx |-> 1, type |-> "STRING"]]

\* schema_t::operator[](name) throws for a name that is no column.
SchemaHas(attr) == attr \in DOMAIN Schema

\* Decimal reading of a digit string, most significant digit first.
RECURSIVE DigitsToNat(_)
DigitsToNat(s) ==
  IF s = <<>> THEN 0
  ELSE 10 * DigitsToNat(SubSeq(s, 1, Len(s) - 1)) + (s[Len(s)] - 48)

\* Decimal rendering of a natural number, no leading zeros.
RECURSIVE NatToDigits(_)
NatToDigits(n) ==
  IF n < 10 THEN <<48 + n>>
  ELSE NatToDigits(n \div 10) \o <<48 + (n % 10)>>

\* mutable_value::parse(value, type) succeeds: an INT literal is a non-empty
\* digit string, a STRING literal is any text.
CanParse(value, type) ==
  \/ type = "STRING"
  \/ type = "INT" /\ value # <<>> /\ \A k \in 1..Len(value) : IsDigit(value[k])

\* mutable_value::parse(value, type): the typed value bound at compile time.
ParseValue(value, type) ==
  IF type = "INT" THEN [type |-> "INT", n |-> DigitsToNat(value), s |-> <<>>]
  ELSE [type |-> "STRING", n |-> 0, s |-> value]

\* immutable_value::to_string
ValueToString(v) == IF v.type = "INT" THEN NatToDigits(v.n) ELSE v.s

\* immutable_value::relop(op, x, y): the typed comparison x op y.
ValLess(x, y) == IF x.type = "INT" THEN x.n < y.n ELSE StrLess(x.s, y.s)
relop(op, x, y) ==
  CASE op = "EQ" -> x = y
    [] op = "NEQ" -> x # y
    [] op = "LT" -> ValLess(x, y)
    [] op = "GT" -> ValLess(y, x)
    [] op = "LE" -> ~ValLess(y, x)
    [] op = "GE" -> ~ValLess(x, y)

(***************************************************************************)
(* compiled_predicate                                                      *)
(***************************************************************************)

\* compiled_predicate::compiled_predicate(attr, op, value, s)
MkPredicate(attr, op, value) ==
  [field_name |-> Schema[attr].name,
   field_idx |-> Schema[attr].idx,
   op |-> op,
   val |-> ParseValue(value, Schema[attr].type)]

\* compiled_predicate::to_string
PredToString(p) == p.field_name \o op_to_str(p.op) \o ValueToString(p.val)

\* compiled_predicate::operator<
PredLess(p, q) == StrLess(PredToString(p), PredToString(q))

\* record_t: r[field_idx].value()
RecordGet(r, idx) == r[idx]

\* schema_snapshot::get(data, field_idx): the value stored in the raw buffer
\* at the field's slot.
SnapshotGet(data, idx) == data[idx + 1]

\* compiled_predicate::test(const record_t&)
PredTest(p, r) == relop(p.op, RecordGet(r, p.field_idx), p.val)

\* compiled_predicate::test(const schema_snapshot&, void*)
PredTestSnap(p, data) == relop(p.op, SnapshotGet(data, p.field_idx), p.val)

(***************************************************************************)
(* compiled_minterm : std::set<compiled_predicate>                         *)
(***************************************************************************)

\* MintermInsert as a multiset would insert: an equivalent predicate is kept
\* beside the one present.
MintermInsertAlways(m, p) ==
  LET n == Cardinality({k \in 1..Len(m) : PredLess(m[k], p)})
  IN SubSeq(m, 1, n) \o <<p>> \o SubSeq(m, n + 1, Len(m))

\* MintermInsert keeping insertion order instead of operator< order.
MintermInsertBack(m, p) ==
  IF \E k \in 1..Len(m) : ~PredLess(m[k], p) /\ ~PredLess(p, m[k]) THEN m
  ELSE Append(m, p)

\* std::set<compiled_predicate>::insert: nothing when an equivalent predicate
\* (neither less than the other) is present, else placed in operator< order.
MintermInsert(m, p) ==
  IF \E k \in 1..Len(m) : ~PredLess(m[k], p) /\ ~PredLess(p, m[k]) THEN m
  ELSE LET n == Cardinality({k \in 1..Len(m) : PredLess(m[k], p)})
       IN SubSeq(m, 1, n) \o <<p>> \o SubSeq(m, n + 1, Len(m))

\* compiled_minterm::add
MintermAdd(m, p) == MintermInsert(m, p)

\* compiled_minterm::to_string: the loop from its i-th iteration on.
RECURSIVE MintermToStringFrom(_, _)
MintermToStringFrom(m, i) ==
  IF i > Len(m) THEN <<>>
  ELSE PredToString(m[i])
         \o (IF i < Len(m) THEN STR_AND ELSE <<>>)
         \o MintermToStringFrom(m, i + 1)

MintermToString(m) == MintermToStringFrom(m, 1)

\* compiled_minterm::operator<
MintermLess(m1, m2) == StrLess(MintermToString(m1), MintermToString(m2))

\* compiled_minterm::test(const record_t&): the loop from its i-th iteration
\* on; the first false predicate returns false.
RECURSIVE MintermTestFrom(_, _, _)
MintermTestFrom(m, i, r) ==
  IF i > Len(m) THEN TRUE
  ELSE IF ~PredTest(m[i], r) THEN FALSE
  ELSE MintermTestFrom(m, i + 1, r)

MintermTest(m, r) == MintermTestFrom(m, 1, r)

\* compiled_minterm::test(const schema_snapshot&, void*)
RECURSIVE MintermTestSnapFrom(_, _, _)
MintermTestSnapFrom(m, i, data) ==
  IF i > Len(m) THEN TRUE
  ELSE IF ~PredTestSnap(m[i], data) THEN FALSE
  ELSE MintermTestSnapFrom(m, i + 1, data)

MintermTestSnap(m, data) == MintermTestSnapFrom(m, 1, data)

(***************************************************************************)
(* compiled_expression : std::set<compiled_minterm>                        *)
(***************************************************************************)

\* compiled_expression(): the default-constructed, empty expression.
EmptyExpression == <<>>

\* std::set<compiled_minterm>::insert
ExprInsert(e, m) ==
  IF \E k \in 1..Len(e) : ~MintermLess(e[k], m) /\ ~MintermLess(m, e[k]) THEN e
  ELSE LET n == Cardinality({k \in 1..Len(e) : MintermLess(e[k], m)})
       IN SubSeq(e, 1, n) \o <<m>> \o SubSeq(e, n + 1, Len(e))

\* compiled_expression::test(const record_t&): the loop over the minterms from
\* its i-th iteration on; the first true minterm returns true.
RECURSIVE ExprTestFrom(_, _, _)
ExprTestFrom(e, i, r) ==
  IF i > Len(e) THEN FALSE
  ELSE IF MintermTest(e[i], r) THEN TRUE
  ELSE ExprTestFrom(e, i + 1, r)

\* ExprTest without the empty() test.
ExprTestNoSentinel(e, r) == ExprTestFrom(e, 1, r)

ExprTest(e, r) == IF Len(e) = 0 THEN TRUE ELSE ExprTestFrom(e, 1, r)

\* compiled_expression::test(const schema_snapshot&, void*)
RECURSIVE ExprTestSnapFrom(_, _, _)
ExprTestSnapFrom(e, i, data) ==
  IF i > Len(e) THEN FALSE
  ELSE IF MintermTestSnap(e[i], data) THEN TRUE
  ELSE ExprTestSnapFrom(e, i + 1, data)

ExprTestSnap(e, data) ==
  IF Len(e) = 0 THEN TRUE ELSE ExprTestSnapFrom(e, 1, data)

\* The test `++i < s - 1` of compiled_expression::to_string, after the
\* increment made i the number of minterms rendered so far.  s is a size_t;
\* the loop body runs only when s >= 1, where s - 1 does not wrap.
SeparatorFollows(i, s) == i < s - 1

\* compiled_expression::to_string: the loop from its i-th iteration on.
RECURSIVE ExprToStringFrom(_, _)
ExprToStringFrom(e, i) ==
  IF i > Len(e) THEN <<>>
  ELSE MintermToString(e[i])
         \o (IF SeparatorFollows(i, Len(e)) THEN STR_OR ELSE <<>>)
         \o ExprToStringFrom(e, i + 1)

ExprToString(e) == ExprToStringFrom(e, 1)

(***************************************************************************)
(* The boolean AST (spirit::utree) and the two visitors.                   *)
(*                                                                         *)
(* A node is a range whose first element is an operator code               *)
(* (kind "range"), a function (kind "function") or any other payload       *)
(* (kind "other").  A range with a relational code holds the attribute and *)
(* the literal; a range with AND or OR holds two nodes.  A visit returns   *)
(* [exc, e]: exc is "none" and e the expression returned, or exc names the *)
(* exception thrown, which unwinds every enclosing visit.                  *)
(***************************************************************************)

Leaf(op, attr, value) ==
  [kind |-> "range", op |-> op, attr |-> attr, value |-> value]
Node(op, l, r) == [kind |-> "range", op |-> op, left |-> l, right |-> r]
FunctionNode == [kind |-> "function"]
OtherNode == [kind |-> "other"]

Returned(e) == [exc |-> "none", e |-> e]
Thrown(what) == [exc |-> what, e |-> EmptyExpression]

\* What compiled_predicate's constructor throws for (attr, value): s[attr]
\* is evaluated first, mutable_value::parse last.
PredicateThrows(attr, value) ==
  IF ~SchemaHas(attr) THEN "invalid_operation: no such attribute"
  ELSE IF ~CanParse(value, Schema[attr].type) THEN "parse: cannot parse value"
  ELSE "none"

\* std::set_union(first1, last1, first2, last2, std::inserter(e, e.end())):
\* the merge loop and the two trailing copies, from positions i and j on.
\* With self the first range is e itself (e.begin(), e.end()): its iterator
\* stays on its element when an insertion shifts the positions, and last1 is
\* e.end() whatever is inserted.
RECURSIVE SetUnionFrom(_, _, _, _, _, _)
SetUnionFrom(self, range1, i, range2, j, e) ==
  LET r1 == IF self THEN e ELSE range1
      \* where the iterator on r1[i] points once x is inserted into e
      Moved(x) ==
        LET after == ExprInsert(e, x)
        IN IF self /\ i <= Len(r1)
             THEN CHOOSE k \in 1..Len(after) : after[k] = r1[i]
           ELSE IF self THEN Len(after) + 1
           ELSE i
  IN IF i <= Len(r1) /\ j <= Len(range2) THEN
       IF MintermLess(r1[i], range2[j]) THEN
         SetUnionFrom(self, range1, Moved(r1[i]) + 1, range2, j,
                      ExprInsert(e, r1[i]))
       ELSE IF MintermLess(range2[j], r1[i]) THEN
         SetUnionFrom(self, range1, Moved(range2[j]), range2, j + 1,
                      ExprInsert(e, range2[j]))
       ELSE
         SetUnionFrom(self, range1, Moved(r1[i]) + 1, range2, j + 1,
                      ExprInsert(e, r1[i]))
     ELSE IF i <= Len(r1) THEN
       SetUnionFrom(self, range1, Moved(r1[i]) + 1, range2, j,
                    ExprInsert(e, r1[i]))
     ELSE IF j <= Len(range2) THEN
       SetUnionFrom(self, range1, Moved(range2[j]), range2, j + 1,
                    ExprInsert(e, range2[j]))
     ELSE e

\* The OR case: set_union(left, right) into the fresh e.
UnionOfOperands(left, right) ==
  SetUnionFrom(FALSE, left, 1, right, 1, EmptyExpression)

\* AccumulateInto assigning the last result instead of merging it.
AccumulateOverwrite(e, tmp) == tmp

\* The AND case's loop body: set_union(e, tmp) into e itself.
AccumulateInto(e, tmp) == SetUnionFrom(TRUE, <<>>, 1, tmp, 1, e)

\* ExpandLeaf starting from a fresh minterm instead of a copy of m_.
ExpandLeafFresh(m, node) ==
  IF PredicateThrows(node.attr, node.value) # "none"
    THEN Thrown(PredicateThrows(node.attr, node.value))
  ELSE Returned(ExprInsert(EmptyExpression,
                  MintermAdd(<<>>, MkPredicate(node.attr, node.op, node.value))))

\* utree_expand_conjunction, relational case: right = m_; right.add(...);
\* e.insert(right).
ExpandLeaf(m, node) ==
  IF PredicateThrows(node.attr, node.value) # "none"
    THEN Thrown(PredicateThrows(node.attr, node.value))
  ELSE Returned(ExprInsert(EmptyExpression,
                  MintermAdd(m, MkPredicate(node.attr, node.op, node.value))))

\* CompileLeaf without e.insert(m).
CompileLeafNoInsert(node) ==
  IF PredicateThrows(node.attr, node.value) # "none"
    THEN Thrown(PredicateThrows(node.attr, node.value))
  ELSE Returned(EmptyExpression)

\* utree_compile_expression, relational case: compiled_minterm m; m.add(...);
\* e.insert(m).
CompileLeaf(node) ==
  IF PredicateThrows(node.attr, node.value) # "none"
    THEN Thrown(PredicateThrows(node.attr, node.value))
  ELSE Returned(ExprInsert(EmptyExpression,
                  MintermAdd(<<>>, MkPredicate(node.attr, node.op, node.value))))

\* LoopBody catching the exception of the right operand and going on.
LoopBodySwallow(e, tmp) ==
  IF tmp.exc # "none" THEN Returned(e) ELSE Returned(AccumulateInto(e, tmp.e))

\* What the body of the AND loop does with the visit of the right operand:
\* an exception unwinds, a result is merged into e.
LoopBody(e, tmp) ==
  IF tmp.exc # "none" THEN tmp ELSE Returned(AccumulateInto(e, tmp.e))

\* What the OR case does with the visits of its operands, left first.
OrCase(left, right) ==
  IF left.exc # "none" THEN left
  ELSE IF right.exc # "none" THEN right
  ELSE Returned(UnionOfOperands(left.e, right.e))

RECURSIVE Expand(_, _)
RECURSIVE ExpandLoop(_, _, _, _)

\* utree_expand_conjunction(m, schema)::operator(): the visit of node.
Expand(m, node) ==
  IF node.kind = "function" THEN Thrown("parse: Functions not supported")
  ELSE IF node.kind # "range" THEN Thrown("parse: Unrecognized type")
  ELSE IF node.op \in RelOps THEN ExpandLeaf(m, node)
  ELSE IF node.op = "OR" THEN
    LET left == Expand(m, node.left)
    IN IF left.exc # "none" THEN left
       ELSE OrCase(left, Expand(m, node.right))
  ELSE IF node.op = "AND" THEN
    LET lor == Expand(m, node.left)
    IN IF lor.exc # "none" THEN lor
       ELSE ExpandLoop(lor.e, 1, node.right, EmptyExpression)
  ELSE Thrown("parse: Unexpected op")

\* The loop `for (auto& lor_m : lor)` of the AND case from its k-th minterm
\* on, e being what the iterations before it accumulated.
ExpandLoop(lor, k, r, e) ==
  IF k > Len(lor) THEN Returned(e)
  ELSE LET step == LoopBody(e, Expand(lor[k], r))
       IN IF step.exc # "none" THEN step
          ELSE ExpandLoop(lor, k + 1, r, step.e)

RECURSIVE Compile(_)
\* utree_compile_expression(schema)::operator(): the visit of node.
Compile(node) ==
  IF node.kind = "function" THEN Thrown("parse: Functions not supported")
  ELSE IF node.kind # "range" THEN Thrown("parse: Unrecognized type")
  ELSE IF node.op \in RelOps THEN CompileLeaf(node)
  ELSE IF node.op = "OR" THEN
    LET left == Compile(node.left)
    IN IF left.exc # "none" THEN left
       ELSE OrCase(left, Compile(node.right))
  ELSE IF node.op = "AND" THEN
    LET left == Compile(node.left)
    IN IF left.exc # "none" THEN left
       ELSE ExpandLoop(left.e, 1, node.right, EmptyExpression)
  ELSE Thrown("parse: Unexpected op")

\* compile_expression(e, schema)
compile_expression(node) == Compile(node)

(***************************************************************************)
(* Inputs: ASTs, records and raw buffers.                                  *)
(***************************************************************************)

\* Literals: "10", "2", "02", "x", "y".  They are alphanumeric tokens: the
\* string of a value holds no operator symbol and no " and ", so that two
\* predicates, or two minterms, with the same string are the same.
Lit10 == <<49, 48>>
Lit2 == <<50>>
Lit02 == <<48, 50>>
LitX == <<120>>
LitY == <<121>>

\* How many leaves of LeafPool the deeper ASTs are built from.
PoolSize == 3

\* b=="x", a<10, a<2, a>="02", b!="y", a>"10"
LeafPool ==
  <<Leaf("EQ", FieldB, LitX), Leaf("LT", FieldA, Lit10),
    Leaf("LT", FieldA, Lit2), Leaf("GE", FieldA, Lit02),
    Leaf("NEQ", FieldB, LitY), Leaf("GT", FieldA, Lit10)>>

Min(x, y) == IF x < y THEN x ELSE y
PoolLeaves == {LeafPool[k] : k \in 1..Min(PoolSize, Len(LeafPool))}
PairLeaves == {LeafPool[1], LeafPool[2]}
TripleLeaves == {LeafPool[1], LeafPool[2], LeafPool[3]}

\* Every relational leaf over the three attribute names and the literals.
AllLeaves ==
  {Leaf(op, attr, value) :
     op \in RelOps, attr \in {FieldA, FieldB, FieldC},
     value \in {Lit10, Lit2, Lit02, LitX}}

\* Nodes that cannot be compiled: an attribute the schema lacks, a literal
\* that is no int for the int column, a function, another payload, and a
\* range whose operator code is none of the eight.
BadNodes ==
  {Leaf("EQ", FieldC, Lit2), Leaf("LT", FieldA, LitX), FunctionNode, OtherNode,
   Node("XOR", LeafPool[1], LeafPool[2])}

\* The leaves, and the AND and OR nodes over two trees of sub.
Grow(sub, leaves) ==
  leaves \cup {Node(op, l, r) : op \in {"AND", "OR"}, l \in sub, r \in sub}

Trees1(leaves) == Grow(leaves, leaves)
Trees2(leaves) == Grow(Trees1(leaves), leaves)

\* AND(A, OR(B, C)) over trees A of subA and B, C of subBC.
Distributions(subA, subBC) ==
  {Node("AND", a, Node("OR", b, c)) : a \in subA, b \in subBC, c \in subBC}

GoodInputs ==
  Trees2(PoolLeaves)
    \cup Distributions(Trees1(TripleLeaves), Trees1(PairLeaves))
    \cup (AllLeaves \ {l \in AllLeaves : PredicateThrows(l.attr, l.value) # "none"})

BadInputs ==
  (UNION {Trees2({LeafPool[2], b}) : b \in BadNodes}) \cup AllLeaves

Inputs == GoodInputs \cup BadInputs

IntValue(n) == [type |-> "INT", n |-> n, s |-> <<>>]
StringValue(s) == [type |-> "STRING", n |-> 0, s |-> s]

\* record_t over the schema: the value of each column, by index.
Records ==
  {[i \in {0, 1} |-> IF i = 0 THEN IntValue(n) ELSE StringValue(s)] :
     n \in {1, 2, 10}, s \in {LitX, LitY}}

\* The raw buffer of a record, read through the schema snapshot.
RawData(r) == <<r[0], r[1]>>

(***************************************************************************)
(* The caller: it compiles an AST once (or keeps the default-constructed   *)
(* expression, no filter), then tests records and renders the expression.  *)
(* Reader threads evaluate the shared expression one predicate at a time.  *)
(***************************************************************************)
VARIABLES ast, pc, expr, exc, out, readers

vars == <<ast, pc, expr, exc, out, readers>>

\* How many reader threads test the shared expression.
MaxReaders == 2
Threads == 1..MaxReaders

NoOutput == [op |-> "none", rec |-> <<>>, verdict |-> FALSE, str |-> <<>>]

\* A thread that is in no call of test.
Idle ==
  [pc |-> "idle", rec |-> <<>>, mi |-> 0, pi |-> 0, evald |-> <<>>,
   ret |-> FALSE]

Init ==
  /\ ast \in Inputs
  /\ pc = "parsed"
  /\ expr = EmptyExpression
  /\ exc = "none"
  /\ out = NoOutput
  /\ readers = [t \in Threads |-> Idle]

\* compile_expression(ast, schema): the caller holds the expression returned,
\* or the exception and no expression.
CompileExpression ==
  /\ pc = "parsed"
  /\ LET res == compile_expression(ast)
     IN /\ exc' = res.exc
        /\ pc' = IF res.exc = "none" THEN "compiled" ELSE "failed"
        /\ expr' = IF res.exc = "none" THEN res.e ELSE expr
  /\ UNCHANGED <<ast, out, readers>>

\* compiled_expression(): the caller installs no filter and drops the AST.
DefaultConstruct ==
  /\ pc = "parsed"
  /\ pc' = "default"
  /\ ast' = OtherNode
  /\ expr' = EmptyExpression
  /\ UNCHANGED <<exc, out, readers>>

\* expr.test(r)
TestRecord ==
  /\ pc \in {"compiled", "default"}
  /\ out = NoOutput
  /\ \E r \in Records :
       out' = [op |-> "test", rec |-> r, verdict |-> ExprTest(expr, r),
               str |-> <<>>]
  /\ UNCHANGED <<ast, pc, expr, exc, readers>>

\* expr.test(snap, data)
TestSnapshot ==
  /\ pc \in {"compiled", "default"}
  /\ out = NoOutput
  /\ \E r \in Records :
       out' = [op |-> "test_snapshot", rec |-> RawData(r),
               verdict |-> ExprTestSnap(expr, RawData(r)), str |-> <<>>]
  /\ UNCHANGED <<ast, pc, expr, exc, readers>>

\* expr.to_string()
RenderExpression ==
  /\ pc \in {"compiled", "default"}
  /\ out = NoOutput
  /\ out' = [op |-> "to_string", rec |-> <<>>, verdict |-> FALSE,
             str |-> ExprToString(expr)]
  /\ UNCHANGED <<ast, pc, expr, exc, readers>>

\* The caller is done with the result of its last call.
Discard ==
  /\ out # NoOutput
  /\ out' = NoOutput
  /\ UNCHANGED <<ast, pc, expr, exc, readers>>

Next ==
  \/ CompileExpression
  \/ DefaultConstruct
  \/ TestRecord
  \/ TestSnapshot
  \/ RenderExpression
  \/ Discard

Spec == Init /\ [][Next]_vars

(***************************************************************************)
(* Concurrent evaluation: compiled_expression::test as its threads run it, *)
(* one predicate evaluation (one read of the shared expression) per step.  *)
(***************************************************************************)

\* The ASTs whose expressions the readers share:
\* b=="x" AND a<10;  b=="x" OR a<2;  (b=="x" OR a<10) AND a<2;
\* (b=="x" AND a<10) OR a<2;  a<10.
ReaderInputs ==
  {Node("AND", LeafPool[1], LeafPool[2]),
   Node("OR", LeafPool[1], LeafPool[3]),
   Node("AND", Node("OR", LeafPool[1], LeafPool[2]), LeafPool[3]),
   Node("OR", Node("AND", LeafPool[1], LeafPool[2]), LeafPool[3]),
   LeafPool[2]}

\* Expressions built by hand rather than compiled: no minterm (no filter),
\* and a single minterm without predicates.
BuiltExpressions ==
  {EmptyExpression, ExprInsert(EmptyExpression, <<>>)}

ReaderRecords == {r \in Records : r[0].n # 2}

ReadersInit ==
  /\ \/ /\ ast \in ReaderInputs
        /\ expr = compile_expression(ast).e
        /\ pc = "compiled"
     \/ /\ ast = OtherNode
        /\ expr \in BuiltExpressions
        /\ pc = "default"
  /\ exc = "none"
  /\ out = NoOutput
  /\ readers = [t \in Threads |-> Idle]

\* Where the loops of compiled_expression::test and compiled_minterm::test
\* stand once the minterm at mi is entered: on its first predicate, or
\* returned true when it has none.
EnterMinterm(rd, e, mi) ==
  IF Len(e[mi]) = 0
    THEN [rd EXCEPT !.pc = "done", !.mi = mi, !.pi = 0, !.ret = TRUE]
  ELSE [rd EXCEPT !.pc = "running", !.mi = mi, !.pi = 1]

\* AfterPredicate without the early return of compiled_minterm::test: a false
\* predicate that is not the last of its minterm is followed by the next.
AfterPredicateNoShortCircuit(rd, e) ==
  LET v == PredTest(e[rd.mi][rd.pi], rd.rec)
      seen == [rd EXCEPT !.evald = Append(rd.evald, <<rd.mi, rd.pi, v>>)]
  IN IF rd.pi < Len(e[rd.mi]) THEN [seen EXCEPT !.pi = rd.pi + 1]
     ELSE IF v THEN [seen EXCEPT !.pc = "done", !.ret = TRUE]
     ELSE IF rd.mi = Len(e) THEN [seen EXCEPT !.pc = "done", !.ret = FALSE]
     ELSE EnterMinterm(seen, e, rd.mi + 1)

\* The thread after p.test(r) on the predicate it stands on: a true
\* predicate moves compiled_minterm::test to the next one, and past the last
\* both tests return true; a false one ends the minterm, the next minterm is
\* entered, and past the last compiled_expression::test returns false.
AfterPredicate(rd, e) ==
  LET v == PredTest(e[rd.mi][rd.pi], rd.rec)
      seen == [rd EXCEPT !.evald = Append(rd.evald, <<rd.mi, rd.pi, v>>)]
  IN IF v THEN
       IF rd.pi = Len(e[rd.mi])
         THEN [seen EXCEPT !.pc = "done", !.ret = TRUE]
       ELSE [seen EXCEPT !.pi = rd.pi + 1]
     ELSE IF rd.mi = Len(e)
       THEN [seen EXCEPT !.pc = "done", !.ret = FALSE]
     ELSE EnterMinterm(seen, e, rd.mi + 1)

\* A thread calls expr.test(r): empty() returns true at once.
ReaderCall(t) ==
  /\ readers[t].pc = "idle"
  /\ \E r \in ReaderRecords :
       readers' =
         [readers EXCEPT ![t] =
            IF Len(expr) = 0
              THEN [Idle EXCEPT !.pc = "done", !.rec = r, !.ret = TRUE]
            ELSE EnterMinterm([Idle EXCEPT !.rec = r], expr, 1)]
  /\ UNCHANGED <<ast, pc, expr, exc, out>>

\* ReaderStep of a test that drops from the shared expression a minterm it
\* found false.
ReaderStepPruning(t) ==
  /\ readers[t].pc = "running"
  /\ LET rd == readers[t]
         v == PredTest(expr[rd.mi][rd.pi], rd.rec)
     IN IF v \/ Len(expr) = 1
          THEN /\ readers' = [readers EXCEPT ![t] = AfterPredicate(rd, expr)]
               /\ expr' = expr
        ELSE /\ expr' = SubSeq(expr, 1, rd.mi - 1)
                          \o SubSeq(expr, rd.mi + 1, Len(expr))
             /\ readers' = [s \in Threads |-> Idle]
  /\ UNCHANGED <<ast, pc, exc, out>>

\* A thread evaluates the predicate it stands on.
ReaderStep(t) ==
  /\ readers[t].pc = "running"
  /\ readers' = [readers EXCEPT ![t] = AfterPredicate(readers[t], expr)]
  /\ UNCHANGED <<ast, pc, expr, exc, out>>

\* The call returned; the thread is free for the next record.
ReaderReturn(t) ==
  /\ readers[t].pc = "done"
  /\ readers' = [readers EXCEPT ![t] = Idle]
  /\ UNCHANGED <<ast, pc, expr, exc, out>>

ReadersNext ==
  \E t \in Threads :
    \/ ReaderCall(t)
    \/ ReaderStep(t)
    \/ ReaderReturn(t)

ReadersSpec == ReadersInit /\ [][ReadersNext]_vars

(***************************************************************************)
(* Properties.                                                             *)
(***************************************************************************)

IsRange(n) == n.kind = "range"
IsLeaf(n) == IsRange(n) /\ n.op \in RelOps
IsAnd(n) == IsRange(n) /\ n.op = "AND"
IsOr(n) == IsRange(n) /\ n.op = "OR"

\* Some node of the tree cannot be compiled: it is no range, its operator
\* code is none of the eight, its attribute is no column of the schema or
\* its literal does not parse into the column's type.
RECURSIVE HasBadNode(_)
HasBadNode(n) ==
  \/ ~IsRange(n)
  \/ IsLeaf(n) /\ PredicateThrows(n.attr, n.value) # "none"
  \/ (IsAnd(n) \/ IsOr(n)) /\ (HasBadNode(n.left) \/ HasBadNode(n.right))
  \/ IsRange(n) /\ n.op \notin RelOps \cup {"AND", "OR"}

\* A minterm as the set of its predicates, an expression as the set of its
\* minterms.
PredSet(m) == {m[k] : k \in 1..Len(m)}
MintermSets(e) == {PredSet(e[k]) : k \in 1..Len(e)}

\* C1: distribution.  Whenever A, B and C compile, AND(A, OR(B, C)) compiles
\* and on every record its test equals
\* compile(A).test AND (compile(B).test OR compile(C).test).
DistributionCorrect ==
  (/\ pc \in {"compiled", "failed"} /\ out = NoOutput
   /\ IsAnd(ast) /\ IsOr(ast.right)
   /\ Compile(ast.left).exc = "none"
   /\ Compile(ast.right.left).exc = "none"
   /\ Compile(ast.right.right).exc = "none")
  => /\ pc = "compiled"
     /\ \A r \in Records :
          ExprTest(expr, r) =
            (/\ ExprTest(Compile(ast.left).e, r)
             /\ \/ ExprTest(Compile(ast.right.left).e, r)
                \/ ExprTest(Compile(ast.right.right).e, r))

\* C1 witness: AND(A, OR(B, C)) with A an OR and B an AND was compiled into
\* at least three minterms, which some record passes and some record fails.
DistributionWitness ==
  /\ pc = "compiled" /\ out = NoOutput
  /\ IsAnd(ast) /\ IsOr(ast.right)
  /\ IsOr(ast.left) /\ IsAnd(ast.right.left)
  /\ Len(expr) >= 3
  /\ \E r \in Records : ExprTest(expr, r)
  /\ \E r \in Records : ~ExprTest(expr, r)

CompileErrorsAreFatal ==
  (pc \in {"compiled", "failed"} /\ HasBadNode(ast))
  => pc = "failed" /\ exc # "none" /\ expr = EmptyExpression /\ out = NoOutput

\* C3 witness: an AND whose left operand compiles and whose right operand
\* is an OR with the bad node as its right operand failed to compile.
CompileErrorWitness ==
  /\ pc = "failed"
  /\ IsAnd(ast) /\ ~HasBadNode(ast.left)
  /\ IsOr(ast.right) /\ ~HasBadNode(ast.right.left)
  /\ HasBadNode(ast.right.right)

\* C4: AND(x, x) over a leaf x compiles to one minterm with one predicate,
\* the predicate of compile(x); OR(x, x) compiles to one minterm; and
\* OR(AND(x, y), AND(x, y)) compiles to one minterm.
DeduplicationIdempotent ==
  (pc = "compiled" /\ (IsAnd(ast) \/ IsOr(ast)) /\ ast.left = ast.right)
  => /\ (IsAnd(ast) /\ IsLeaf(ast.left)) =>
          /\ Len(expr) = 1
          /\ Len(expr[1]) = 1
          /\ expr[1][1] = Compile(ast.left).e[1][1]
     /\ (IsOr(ast) /\ IsLeaf(ast.left)) => Len(expr) = 1
     /\ (/\ IsOr(ast) /\ IsAnd(ast.left)
         /\ IsLeaf(ast.left.left) /\ IsLeaf(ast.left.right)) => Len(expr) = 1

\* C4 witness: OR(AND(x, y), AND(x, y)) with two different leaves was
\* compiled.
DeduplicationWitness ==
  /\ pc = "compiled"
  /\ IsOr(ast) /\ ast.left = ast.right /\ IsAnd(ast.left)
  /\ IsLeaf(ast.left.left) /\ IsLeaf(ast.left.right)
  /\ ast.left.left # ast.left.right
  /\ Len(expr[1]) = 2

\* C5: the AST with the operands of its root AND or OR exchanged compiles to
\* the same minterms and the same string.
OrderingStable ==
  (pc = "compiled" /\ out = NoOutput /\ (IsAnd(ast) \/ IsOr(ast)))
  => LET swapped == Compile(Node(ast.op, ast.right, ast.left))
     IN /\ swapped.exc = "none"
        /\ swapped.e = expr
        /\ ExprToString(swapped.e) = ExprToString(expr)

\* C5 witness: an AND of two different operands, the left one an OR, was
\* compiled into several minterms.
OrderingWitness ==
  /\ pc = "compiled" /\ out = NoOutput
  /\ IsAnd(ast) /\ IsOr(ast.left) /\ ast.left # ast.right
  /\ Len(expr) >= 2

\* The strings of the minterms of e from the i-th on, with " or " between
\* every two adjacent ones.
RECURSIVE JoinedWithOr(_, _)
JoinedWithOr(e, i) ==
  IF i > Len(e) THEN <<>>
  ELSE IF i = Len(e) THEN MintermToString(e[i])
  ELSE MintermToString(e[i]) \o STR_OR \o JoinedWithOr(e, i + 1)

\* C7: to_string renders the minterms in ascending order with " or " between
\* every two adjacent minterms.
SeparatorBetweenAdjacent ==
  out.op = "to_string" => out.str = JoinedWithOr(expr, 1)

\* The minterms on which expand is tried: none, b=="x", a<10, and both.
BaseMinterms ==
  {<<>>,
   Compile(LeafPool[1]).e[1],
   Compile(LeafPool[2]).e[1],
   Compile(Node("AND", LeafPool[1], LeafPool[2])).e[1]}

\* C9: for the compiled AST N and every minterm m, expand(m, N) is
\* { m united with n : n in compile(N) }, each of its minterms contains m,
\* and merging it into compile(N) gives the union of the two; and the
\* compilation of AND(A, B) is { a united with b : a in compile(A),
\* b in compile(B) }.
ExpandAgreesWithCompile ==
  (pc = "compiled" /\ out = NoOutput)
  => /\ \A m \in BaseMinterms :
          LET x == Expand(m, ast)
              merged == AccumulateInto(expr, x.e)
          IN /\ x.exc = "none"
             /\ MintermSets(x.e) = {PredSet(m) \cup n : n \in MintermSets(expr)}
             /\ Len(x.e) = Cardinality(MintermSets(x.e))
             /\ \A k \in 1..Len(x.e) : PredSet(m) \subseteq PredSet(x.e[k])
             /\ MintermSets(merged) = MintermSets(expr) \cup MintermSets(x.e)
             /\ Len(merged) = Cardinality(MintermSets(merged))
     /\ IsAnd(ast) =>
          /\ MintermSets(expr) =
               {a \cup b : a \in MintermSets(Compile(ast.left).e),
                           b \in MintermSets(Compile(ast.right).e)}
          /\ Len(expr) = Cardinality(MintermSets(expr))

\* C9 witness: an AND whose operands each compile to two minterms or more
\* was compiled into three minterms or more.
ExpandWitness ==
  /\ pc = "compiled" /\ out = NoOutput
  /\ IsAnd(ast)
  /\ Len(Compile(ast.left).e) >= 2
  /\ Len(Compile(ast.right).e) >= 2
  /\ Len(expr) >= 3

\* C10: a compiled expression has a minterm and each of its minterms has a
\* predicate; no AND whose right operand has a bad node compiles; an
\* expression without minterms is the default-constructed one.
CompileNeverYieldsSentinel ==
  /\ pc = "compiled" =>
       /\ Len(expr) >= 1
       /\ \A k \in 1..Len(expr) : Len(expr[k]) >= 1
       /\ IsAnd(ast) => ~HasBadNode(ast.right)
  /\ (pc \in {"compiled", "default"} /\ Len(expr) = 0) => pc = "default"

\* C10 witness: an AND of an OR and a leaf was compiled into two minterms or
\* more, of two predicates or more each.
CompileNonEmptyWitness ==
  /\ pc = "compiled"
  /\ IsAnd(ast) /\ IsOr(ast.left) /\ IsLeaf(ast.right)
  /\ Len(expr) >= 2
  /\ \A k \in 1..Len(expr) : Len(expr[k]) >= 2

\* Every reader that returned holds what the test of its record returns
\* when run alone.
ReadersAgree ==
  \A t \in Threads :
    readers[t].pc = "done" =>
      readers[t].ret = ExprTest(expr, readers[t].rec)

\* C6: no step of a reader changes the shared expression, and each call
\* returns what it returns when run alone, whatever the interleaving.
ConcurrentTestIsReadOnly == [][expr' = expr]_vars /\ []ReadersAgree

\* C6 witness: one reader has returned while another, on a different
\* record, stands on the second predicate of a minterm.
ConcurrentTestWitness ==
  \E t, u \in Threads :
    /\ t # u
    /\ readers[t].pc = "done"
    /\ readers[u].pc = "running" /\ readers[u].pi = 2
    /\ readers[t].rec # readers[u].rec
    /\ readers[t].ret # ExprTest(expr, readers[u].rec)

\* C8: a reader evaluates the predicates of a minterm from the first on in
\* the ascending order of their strings, each evaluation after a true one is
\* the next predicate of the same minterm, the evaluation after a false one
\* is the first predicate of the next minterm, and a minterm without
\* predicates is true.
ShortCircuitOrder ==
  /\ \A k \in 1..Len(expr) : \A j \in 1..(Len(expr[k]) - 1) :
       StrLess(PredToString(expr[k][j]), PredToString(expr[k][j + 1]))
  /\ \A t \in Threads :
       LET tr == readers[t].evald
       IN /\ Len(tr) >= 1 => (tr[1][1] = 1 /\ tr[1][2] = 1)
          /\ \A k \in 1..Len(tr) :
               tr[k][3] = PredTest(expr[tr[k][1]][tr[k][2]], readers[t].rec)
          /\ \A k \in 1..(Len(tr) - 1) :
               IF tr[k][3]
                 THEN tr[k + 1][1] = tr[k][1] /\ tr[k + 1][2] = tr[k][2] + 1
               ELSE tr[k + 1][1] = tr[k][1] + 1 /\ tr[k + 1][2] = 1
          /\ (/\ readers[t].pc = "done"
              /\ Len(expr) >= 1
              /\ Len(expr[readers[t].mi]) = 0) =>
               readers[t].ret
          /\ (readers[t].pc = "done" /\ ~readers[t].ret) =>
               (Len(tr) >= 1 /\ ~tr[Len(tr)][3])

\* C8 witness: on the expression of b=="x" AND a<10 a reader returned false
\* having evaluated the first predicate in string order alone, a<10, which
\* is the second of the AST.
ShortCircuitWitness ==
  \E t \in Threads :
    /\ ast = Node("AND", LeafPool[1], LeafPool[2])
    /\ readers[t].pc = "done" /\ ~readers[t].ret
    /\ readers[t].evald = <<<<1, 1, FALSE>>>>
    /\ Len(expr[1]) = 2
    /\ expr[1][1] = Compile(LeafPool[2]).e[1][1]

====
